---- MODULE Spec2Model ----
(***************************************************************************)
(* A model of simba's preprocessing module                                 *)
(* (src/simba/preprocessing/preprocess.py): the elbow locator, the two     *)
(* selection call sites select_pcs and select_pcs_features, and the        *)
(* threshold filters filter_samples and filter_features.                   *)
(*                                                                         *)
(* locate_elbow is imported from simba/preprocessing/_utils.py, which is   *)
(* not among the source files; it is modelled from section 4.1 of the      *)
(* specification.  All arithmetic on normalised values is done on          *)
(* integers: a normalised quantity is kept multiplied by the (positive)    *)
(* product of the two ranges, which leaves every comparison unchanged.     *)
(***************************************************************************)
EXTENDS Integers, Sequences, FiniteSets

(* ----------------------------- bounds --------------------------------- *)

\* longest curve handed to the locator
MaxLen == 4

(* ----------------------------- helpers -------------------------------- *)

\* An absent value (Python's None) is the empty set, a present value v is {v}.
None == {}

Some(v) == {v}

TheValue(o) == CHOOSE v \in o : TRUE

Abs(a) == IF a < 0 THEN 0 - a ELSE a

SeqMax(s) == CHOOSE m \in {s[j] : j \in DOMAIN s} : \A j \in DOMAIN s : s[j] <= m

SeqMin(s) == CHOOSE m \in {s[j] : j \in DOMAIN s} : \A j \in DOMAIN s : m <= s[j]

RECURSIVE SumTo(_, _)
SumTo(f, n) == IF n = 0 THEN 0 ELSE f[n] + SumTo(f, n - 1)

(* --------------------------- elbow locator ---------------------------- *)

\* Sensitivity S is kept in halves: S = S2 / 2.
SVals == {0, 1, 2, 4}

Shapes == {"convex", "concave"}

Directions == {"decreasing", "increasing"}

\* min_elbow is kept in tenths (the callers' default is n/10): absent, or {m10}.
\* Index k (0-based) is below min_elbow exactly when 10 * k < m10.
\* (variant: min_elbow cut to an integer before the comparison)
BelowMinTruncated(k, min10) ==
    min10 # None /\ 10 * k < 10 * (TheValue(min10) \div 10)

BelowMin(k, min10) == min10 # None /\ 10 * k < TheValue(min10)

\* Step 3: the transformed normalised y, times the y range R.
TransformY(num, R, curve, direction) ==
    LET reflected == IF direction = "increasing" THEN R - num ELSE num
    IN  IF curve = "concave" THEN 0 - reflected ELSE reflected

\* Steps 1, 2 and 4: the difference sequence y - x of the normalised curve,
\* times (n - 1) * R.  A single x normalises to 0; a zero y range makes the
\* difference sequence constant.
\* (variant: a zero y range normalises y to the constant 0, as for x)
DiffSeqZeroRange(y, curve, direction) ==
    LET n  == Len(y)
        lo == SeqMin(y)
        R  == IF SeqMax(y) = lo THEN 1 ELSE SeqMax(y) - lo
        N1 == IF n = 1 THEN 1 ELSE n - 1
    IN  [j \in 1..n |->
            TransformY(y[j] - lo, R, curve, direction) * N1 - (j - 1) * R]

DiffSeq(y, curve, direction) ==
    LET n  == Len(y)
        lo == SeqMin(y)
        R  == SeqMax(y) - lo
        N1 == IF n = 1 THEN 1 ELSE n - 1
    IN  [j \in 1..n |->
            IF R = 0 THEN 0
            ELSE TransformY(y[j] - lo, R, curve, direction) * N1 - (j - 1) * R]

\* Step 5: the sum of the absolute first differences of the difference
\* sequence; the threshold T is S times their mean.
\* (variant: the first differences are summed with their signs)
SumSignedDiff(d) ==
    SumTo([j \in 1..(Len(d) - 1) |-> d[j + 1] - d[j]], Len(d) - 1)

SumAbsDiff(d) ==
    SumTo([j \in 1..(Len(d) - 1) |-> Abs(d[j + 1] - d[j])], Len(d) - 1)

\* drop > T, with T = (S2 / 2) * SumAbsDiff(d) / (Len(d) - 1)
\* (variant: the mean is divided by S instead of multiplied)
ExceedsDividedThreshold(drop, d, S2) ==
    drop * S2 * (Len(d) - 1) > 2 * SumAbsDiff(d)

\* (variant: a drop equal to T counts)
ReachesThreshold(drop, d, S2) ==
    drop * 2 * (Len(d) - 1) >= S2 * SumAbsDiff(d)

ExceedsThreshold(drop, d, S2) ==
    drop * 2 * (Len(d) - 1) > S2 * SumAbsDiff(d)

\* Step 6 and 7: the state of the left-to-right scan before index st.idx
\* (0-based), and the state after that index has been examined.
ScanStart == [idx |-> 0, running_max |-> None, crossed |-> FALSE,
              cand |-> None, last_reset |-> None, done |-> FALSE]

IsNewMax(st, d) ==
    IF st.running_max = None THEN TRUE
    ELSE d[st.idx + 1] > TheValue(st.running_max)

Drops(st, d, S2) ==
    IF IsNewMax(st, d) THEN FALSE
    ELSE ExceedsThreshold(TheValue(st.running_max) - d[st.idx + 1], d, S2)

Qualifies(st, d, S2, min10) == Drops(st, d, S2) /\ ~BelowMin(st.idx, min10)

\* (variant: a candidate, once held, is not replaced by a later one)
ScanStepKeepFirst(st, d, S2, min10, online) ==
    IF st.idx >= Len(d) THEN [st EXCEPT !.done = TRUE]
    ELSE IF IsNewMax(st, d) THEN
        [st EXCEPT !.running_max = Some(d[st.idx + 1]),
                   !.crossed = IF online THEN FALSE ELSE st.crossed,
                   !.last_reset = IF online THEN Some(st.idx) ELSE st.last_reset,
                   !.idx = st.idx + 1]
    ELSE IF Qualifies(st, d, S2, min10) THEN
        [st EXCEPT !.crossed = TRUE,
                   !.cand = IF st.cand = None THEN Some(st.idx) ELSE st.cand,
                   !.done = online,
                   !.idx = IF online THEN st.idx ELSE st.idx + 1]
    ELSE
        [st EXCEPT !.crossed = (st.crossed \/ Drops(st, d, S2)),
                   !.idx = st.idx + 1]

\* (variant: a new running maximum leaves the threshold-crossing state alone)
ScanStepNoReset(st, d, S2, min10, online) ==
    IF st.idx >= Len(d) THEN [st EXCEPT !.done = TRUE]
    ELSE IF IsNewMax(st, d) THEN
        [st EXCEPT !.running_max = Some(d[st.idx + 1]),
                   !.idx = st.idx + 1]
    ELSE IF Qualifies(st, d, S2, min10) THEN
        [st EXCEPT !.crossed = TRUE,
                   !.cand = Some(st.idx),
                   !.done = online,
                   !.idx = IF online THEN st.idx ELSE st.idx + 1]
    ELSE
        [st EXCEPT !.crossed = (st.crossed \/ Drops(st, d, S2)),
                   !.idx = st.idx + 1]

\* One index of the scan.  A value above the running maximum replaces it
\* (and, online, resets the threshold-crossing state); otherwise an index
\* that drops from the running maximum by more than T and is not below
\* min_elbow becomes the candidate, which online mode returns at once.
ScanStep(st, d, S2, min10, online) ==
    IF st.idx >= Len(d) THEN [st EXCEPT !.done = TRUE]
    ELSE IF IsNewMax(st, d) THEN
        [st EXCEPT !.running_max = Some(d[st.idx + 1]),
                   !.crossed = IF online THEN FALSE ELSE st.crossed,
                   !.last_reset = IF online THEN Some(st.idx) ELSE st.last_reset,
                   !.idx = st.idx + 1]
    ELSE IF Qualifies(st, d, S2, min10) THEN
        [st EXCEPT !.crossed = TRUE,
                   !.cand = Some(st.idx),
                   !.done = online,
                   !.idx = IF online THEN st.idx ELSE st.idx + 1]
    ELSE
        [st EXCEPT !.crossed = (st.crossed \/ Drops(st, d, S2)),
                   !.idx = st.idx + 1]

RECURSIVE ScanFrom(_, _, _, _, _)
ScanFrom(st, d, S2, min10, online) ==
    IF st.done THEN st
    ELSE ScanFrom(ScanStep(st, d, S2, min10, online), d, S2, min10, online)

\* Step 8: the elbow (0-based index), or None.
locate_elbow(y, S2, min10, curve, direction, online) ==
    ScanFrom(ScanStart, DiffSeq(y, curve, direction), S2, min10, online).cand

(* ------------------------- the scan as a machine ---------------------- *)

\* The locator's scan: its curve, its configuration and its loop state.
VARIABLES y, cfg, scan

\* The annotated matrix as the selection functions see it:
\*   PCs             adata.varm['PCs'], one loading column per component
\*                   (<<>> before pca has run)
\*   variance_ratio  adata.uns['pca']['variance_ratio']
\*   n_pcs           adata.uns['pca']['n_pcs']: None while the key is absent,
\*                   else Some(value), the value itself None or Some(count)
\*   features        adata.uns['pca']['features']: None while absent, else
\*                   Some(mapping), the list of 'pc_i' at position i + 1
\*   top_pcs         the column adata.var['top_pcs']: None while absent
\*   frame           the select_pcs_features call in progress, if any
\*   err             whether the last call ended in an exception
\*   call            the last pca, select_pcs or select_pcs_features call:
\*                   its name, the configuration the caller passed, and the
\*                   configuration the decomposition or the elbow locator
\*                   was invoked with (None while it was not invoked)
VARIABLES PCs, variance_ratio, n_pcs, features, top_pcs, frame, err, call

\* The annotated matrix as the QC and filter functions see it:
\*   X        adata.X, a function row -> column -> count
\*   n_obs    adata.shape[0], the number of rows (samples)
\*   n_vars   adata.shape[1], the number of columns (features)
\*   obs      the QC columns of adata.obs, each None while absent, else
\*            Some(one value per row)
\*   var      the QC columns of adata.var, likewise, one value per column
\*   last     the last QC or filter call: its name, the number of rows or
\*            columns it removed, and the number an immediate second call
\*            with the same arguments would remove on top of that
\*   audit    what the last filter call did: whether the metrics it compared
\*            were those of the matrix at the call (fresh), whether they
\*            were the stored columns where present (cached), whether it
\*            kept exactly the rows or columns meeting the thresholds
\*            (exact), whether all thresholds were None (unset), whether
\*            it ended in an exception (raised), and how many rows or
\*            columns the masks computed before the exception excluded
\*            (masked)
VARIABLES X, n_obs, n_vars, obs, var, last, audit

\* What normalize and cal_qc_rna read and write besides:
\*   raw        adata.layers['raw']: None while absent, else Some(matrix)
\*   var_names  adata.var_names, one name per column (tracked only where
\*              cal_qc_rna runs; <<>> elsewhere)
\*   rna        the columns only cal_qc_rna writes: var['n_cells'],
\*              var['pct_cells'], obs['n_genes'], obs['pct_genes'],
\*              obs['pct_mt'], each None while absent
\*   outcome    the last normalize or cal_qc_rna call: its name, its
\*              arguments and whether it ended in an exception
VARIABLES raw, var_names, rna, outcome

elbowVars == <<y, cfg, scan>>

selectVars == <<PCs, variance_ratio, n_pcs, features, top_pcs, frame, err, call>>

prepVars == <<raw, var_names, rna, outcome>>

filterVars == <<X, n_obs, n_vars, obs, var, last, audit, prepVars>>

vars == <<elbowVars, selectVars, filterVars>>

\* the values of a curve
YVals == {0, 1, 3}

Curves == UNION {[1..n -> YVals] : n \in 1..MaxLen}

\* The curve of the specification's P6, in tenths.
P6Curve == <<100, 90, 80, 10, 9, 8, 7>>

\* A curve of eleven points, for which the callers' default n/10 = 1.1 lies
\* above index 1.
LongCurve == <<9, 0, 0, 0, 0, 0, 0, 0, 0, 0, 0>>

\* The callers' default min_elbow = n / 10, in tenths (select_pcs, line 969;
\* select_pcs_features, line 994).
DefaultMinElbow(n) == Some(n)

MinElbows(n) == {None} \cup {Some(10 * m) : m \in 0..2} \cup {DefaultMinElbow(n)}

Configs(n) == [S2 : SVals, min10 : MinElbows(n), curve : Shapes,
               direction : Directions, online : BOOLEAN]

d == DiffSeq(y, cfg.curve, cfg.direction)

NoFrame == [pc |-> "idle", n_pcs |-> None, min10 |-> None, S2 |-> 0, i |-> 0,
            ids_features |-> <<>>]

NoCall == [op |-> "none", used |-> None]

SelectIdle ==
    /\ PCs = <<>> /\ variance_ratio = <<>>
    /\ n_pcs = None /\ features = None /\ top_pcs = None
    /\ frame = NoFrame /\ err = FALSE
    /\ call = NoCall

ElbowIdle ==
    /\ y = <<0>>
    /\ cfg = [S2 |-> 0, min10 |-> None, curve |-> "convex",
              direction |-> "decreasing", online |-> FALSE]
    /\ scan = [ScanStart EXCEPT !.done = TRUE]

\* The six thresholds of a filter call, each None or Some(value); min_n and
\* max_n bound n_features (filter_samples) or n_samples (filter_features),
\* min_pct and max_pct bound pct_features or pct_samples.
NoThresholds == [min_n |-> None, max_n |-> None, min_pct |-> None,
                 max_pct |-> None, min_n_counts |-> None, max_n_counts |-> None]

NoObsColumns == [n_counts |-> None, n_features |-> None, pct_features |-> None]

NoVarColumns == [n_counts |-> None, n_samples |-> None, pct_samples |-> None]

NoAudit == [fresh |-> TRUE, cached |-> TRUE, exact |-> TRUE, unset |-> FALSE,
            raised |-> FALSE, masked |-> 0]

NoRnaColumns == [n_cells |-> None, pct_cells |-> None, n_genes |-> None,
                 pct_genes |-> None, pct_mt |-> None]

NoOutcome == [op |-> "none", raised |-> FALSE]

PrepIdle ==
    /\ raw = None /\ var_names = <<>> /\ rna = NoRnaColumns
    /\ outcome = NoOutcome

FilterIdle ==
    /\ X = <<>> /\ n_obs = 0 /\ n_vars = 0
    /\ obs = NoObsColumns /\ var = NoVarColumns
    /\ last = [op |-> "none", removed |-> 0, again |-> 0]
    /\ audit = NoAudit
    /\ PrepIdle

ElbowInit ==
    /\ y \in Curves \cup {P6Curve, LongCurve}
    /\ cfg \in Configs(Len(y))
    /\ scan = ScanStart
    /\ SelectIdle
    /\ FilterIdle

Step == ScanStep(scan, d, cfg.S2, cfg.min10, cfg.online)

ScanNewMax ==
    /\ ~scan.done /\ scan.idx < Len(y) /\ IsNewMax(scan, d)
    /\ scan' = Step
    /\ UNCHANGED <<y, cfg, selectVars, filterVars>>

ScanQualify ==
    /\ ~scan.done /\ scan.idx < Len(y)
    /\ Qualifies(scan, d, cfg.S2, cfg.min10)
    /\ scan' = Step
    /\ UNCHANGED <<y, cfg, selectVars, filterVars>>

ScanPass ==
    /\ ~scan.done /\ scan.idx < Len(y)
    /\ ~IsNewMax(scan, d) /\ ~Qualifies(scan, d, cfg.S2, cfg.min10)
    /\ scan' = Step
    /\ UNCHANGED <<y, cfg, selectVars, filterVars>>

ScanEnd ==
    /\ ~scan.done /\ scan.idx >= Len(y)
    /\ scan' = Step
    /\ UNCHANGED <<y, cfg, selectVars, filterVars>>

ElbowNext == ScanNewMax \/ ScanQualify \/ ScanPass \/ ScanEnd

SpecElbow == ElbowInit /\ [][ElbowNext]_vars

(* ------------------------- claims on the locator ---------------------- *)

\* The running maximum of d over the 0-based indices 0..k.
MaxPrefix(k) == SeqMax(SubSeq(d, 1, k + 1))

\* Index k drops from the running maximum by more than T (S in halves: s2).
DropsAt(k, s2) == ExceedsThreshold(MaxPrefix(k) - d[k + 1], d, s2)

\* The candidate elbows of the whole scan under sensitivity s2.
Candidates(s2) ==
    {k \in 0..(Len(y) - 1) : DropsAt(k, s2) /\ ~BelowMin(k, cfg.min10)}

SetMax(S) == CHOOSE m \in S : \A k \in S : k <= m

SetMin(S) == CHOOSE m \in S : \A k \in S : m <= k

\* The elbow the locator would return for the same curve with min_elbow absent.
Unconstrained ==
    locate_elbow(y, cfg.S2, None, cfg.curve, cfg.direction, cfg.online)

\* The elbow the locator returns for the same curve and configuration with
\* sensitivity s2.
ElbowWith(s2) ==
    locate_elbow(y, s2, cfg.min10, cfg.curve, cfg.direction, cfg.online)

\* C1: when min_elbow is supplied (an integer or the callers' fractional
\* n/10), neither the candidate held during the scan nor the index returned
\* is below min_elbow, for every curve, S, curve shape, direction and mode.
C1_MinElbowFloor ==
    (cfg.min10 # None /\ scan.cand # None)
        => 10 * TheValue(scan.cand) >= TheValue(cfg.min10)

\* C1 witness: the scan has returned an index under the fractional default
\* n/10 although the unconstrained elbow lies below it.
C1_Witness ==
    /\ scan.done /\ scan.cand # None
    /\ cfg.min10 = DefaultMinElbow(Len(y))
    /\ Unconstrained # None
    /\ BelowMin(TheValue(Unconstrained), cfg.min10)

\* C2: in non-online mode, when at least one index qualifies, the index
\* returned is the last qualifying index of the whole scan.
C2_NonOnlineLast ==
    (scan.done /\ ~cfg.online /\ Candidates(cfg.S2) # {})
        => scan.cand = Some(SetMax(Candidates(cfg.S2)))

\* C2 witness: a finished non-online scan with several qualifying indices.
C2_Witness ==
    /\ scan.done /\ ~cfg.online
    /\ Cardinality(Candidates(cfg.S2)) >= 2
    /\ scan.cand = Some(SetMax(Candidates(cfg.S2)))
    /\ SetMax(Candidates(cfg.S2)) < Len(y) - 1

\* C3, state part: in online mode a committed candidate ends the scan; the
\* index returned is the first qualifying index, and its drop is measured
\* against the maximum of the difference sequence up to that index.
C3_OnlineState ==
    cfg.online =>
        /\ scan.cand # None => scan.done
        /\ scan.done =>
              scan.cand = IF Candidates(cfg.S2) = {} THEN None
                          ELSE Some(SetMin(Candidates(cfg.S2)))
        /\ (scan.done /\ scan.cand # None) =>
              /\ scan.running_max = Some(MaxPrefix(TheValue(scan.cand)))
              /\ DropsAt(TheValue(scan.cand), cfg.S2)

\* C3, step part: in online mode a step that establishes a new running
\* maximum (no candidate is committed yet) resets the running maximum to the
\* new value and clears the threshold-crossing state; once the scan has
\* returned nothing changes.
C3_OnlineStep ==
    cfg.online =>
        /\ (~scan.done /\ scan.idx < Len(y) /\ IsNewMax(scan, d)) =>
              /\ scan'.running_max = Some(d[scan.idx + 1])
              /\ scan'.crossed = FALSE
              /\ scan'.last_reset = Some(scan.idx)
              /\ scan'.cand = None
        /\ scan.done => scan' = scan

\* C3: online mode returns the first qualifying index and stops there, and
\* resets on every new running maximum.
C3_OnlineFirst == []C3_OnlineState /\ [][C3_OnlineStep]_vars

\* C3 witness: an online scan whose running maximum was replaced after index
\* 0 returned the first of several qualifying indices before the curve's end.
C3_Witness ==
    /\ cfg.online /\ scan.done /\ scan.cand # None
    /\ scan.last_reset # None /\ TheValue(scan.last_reset) > 0
    /\ TheValue(scan.cand) < Len(y) - 1
    /\ Cardinality(Candidates(cfg.S2)) >= 2

Degenerate == Len(y) = 1 \/ SeqMax(y) = SeqMin(y)

\* C5: for a curve of length 1 or with all y equal the scan runs to its end
\* without getting stuck and returns no elbow, for every S, mode and
\* min_elbow.
C5_DegenerateNoElbow ==
    Degenerate =>
        /\ scan.cand = None
        /\ scan.done \/ ENABLED ElbowNext
        /\ locate_elbow(y, cfg.S2, cfg.min10, cfg.curve, cfg.direction,
                        cfg.online) = None

\* C5 witness: the scan of a flat curve of several points has finished.
C5_Witness ==
    /\ scan.done /\ Len(y) > 2 /\ SeqMax(y) = SeqMin(y) /\ cfg.S2 = 0
    /\ cfg.min10 = None

P6Config == cfg.S2 = 2 /\ cfg.min10 = None /\ cfg.curve = "convex"
            /\ cfg.direction = "decreasing"

IsLocalMax(k) ==
    /\ k + 1 < Len(y)
    /\ d[k + 1] > d[k + 2]
    /\ k > 0 => d[k + 1] >= d[k]

LocalMaxima == {k \in 0..(Len(y) - 1) : IsLocalMax(k)}

S0Config == cfg.S2 = 0 /\ ~cfg.online /\ cfg.min10 = None

BelowRunningMax == {k \in 0..(Len(y) - 1) : d[k + 1] < MaxPrefix(k)}

MaxFeat == 2

CompCounts == {1, 2}

Loadings == {-2, 1}

VarianceValues == {1, 3}

\* Sensitivities (in halves) the selection functions are called with: 0.5
\* and the default S = 1.
SelectSVals == {1, 2}

\* The min_elbow arguments of the selection calls: absent (the default n/10
\* applies) or 2, in tenths.
ArgMinElbows == {None, Some(20)}

NumFeatures == Len(PCs[1])

NumComponents == Len(PCs)

\* np.argsort(np.abs(column))[::-1]: the feature positions ranked by
\* descending absolute loading.  The order among equal magnitudes is whatever
\* the sort leaves, so every ranking that is descending is an outcome.
Rankings(col) ==
    {p \in [1..Len(col) -> 1..Len(col)] :
        /\ \A a, b \in 1..Len(col) : a # b => p[a] # p[b]
        /\ \A a \in 1..(Len(col) - 1) : Abs(col[p[a]]) >= Abs(col[p[a + 1]])}

\* np.sort(np.abs(column))[::-1]: the magnitudes in descending order.
SortedMagnitudes(col) ==
    LET p == CHOOSE q \in Rankings(col) : TRUE
    IN  [a \in 1..Len(col) |-> Abs(col[p[a]])]

\* (variant: the slice takes the entry at the elbow too)
TopFeaturesInclusive(ranking, elbow) ==
    LET k == IF elbow = None THEN Len(ranking) ELSE TheValue(elbow) + 1
    IN  [a \in 1..k |-> ranking[a] - 1]

\* (variant: a None elbow selects nothing)
TopFeaturesBounded(ranking, elbow) ==
    LET k == IF elbow = None THEN 0 ELSE TheValue(elbow)
    IN  [a \in 1..k |-> ranking[a] - 1]

\* ranking[:elbow] as 0-based feature indices; a None elbow slices to the end.
TopFeatures(ranking, elbow) ==
    LET k == IF elbow = None THEN Len(ranking) ELSE TheValue(elbow)
    IN  [a \in 1..k |-> ranking[a] - 1]

\* np.unique(ids_features), as a set
Unique(ids) == {ids[a] : a \in DOMAIN ids}

\* The arguments pca is called with besides n_components: the defaults of
\* lines 918-920 and one other algorithm and tolerance (in thousandths).
Algorithms == {"randomized", "arpack"}

IterCounts == {5}

Seeds == {2021}

Tolerances == {0, 1}

\* pca: the decomposition is external; it leaves a loading column per
\* component and the variance ratios, and replaces adata.uns['pca'] by a
\* fresh dict (lines 951-953), which drops 'n_pcs' and 'features'.
\* The arguments TruncatedSVD is constructed with, lines 943-947: the
\* caller's n_components, algorithm, n_iter and random_state, and tol = 0.0.
PcaDecomposition(n_components, algorithm, n_iter, random_state, tol) ==
    [n_components |-> n_components, algorithm |-> algorithm, n_iter |-> n_iter,
     random_state |-> random_state, tol |-> 0]

Pca ==
    /\ frame.pc = "idle" /\ PCs = <<>>
    /\ \E nf \in 1..MaxFeat, nc \in CompCounts :
          /\ PCs' \in [1..nc -> [1..nf -> Loadings]]
          /\ variance_ratio' \in [1..nc -> VarianceValues]
          /\ \E algorithm \in Algorithms, n_iter \in IterCounts,
                random_state \in Seeds, tol \in Tolerances :
                call' = [op |-> "pca",
                         passed |-> [n_components |-> nc, algorithm |-> algorithm,
                                     n_iter |-> n_iter,
                                     random_state |-> random_state, tol |-> tol],
                         used |-> Some(PcaDecomposition(nc, algorithm, n_iter,
                                                        random_state, tol))]
    /\ n_pcs' = None /\ features' = None
    /\ err' = FALSE
    /\ UNCHANGED <<top_pcs, frame, elbowVars, filterVars>>

\* (variant: the locator is run whether or not n_pcs is given)
SelectPcsResultLocates(arg_n_pcs, S2, arg_min, direction, online) ==
    LET n_components == NumComponents
        min10 == IF arg_min = None THEN DefaultMinElbow(n_components)
                 ELSE arg_min
    IN  locate_elbow(variance_ratio, S2, min10, "convex", direction, online)

\* select_pcs, lines 966-979.  The locator gets S, min_elbow, direction and
\* online; curve is not handed on, so the locator's default applies.
SelectPcsResult(arg_n_pcs, S2, arg_min, direction, online) ==
    IF arg_n_pcs = None
    THEN LET n_components == NumComponents
             min10 == IF arg_min = None THEN DefaultMinElbow(n_components)
                      ELSE arg_min
         IN  locate_elbow(variance_ratio, S2, min10, "convex", direction, online)
    ELSE arg_n_pcs

\* The curve, direction and online arguments select_pcs and
\* select_pcs_features are called with: the defaults of lines 959-961 and
\* 984-986, or none of them.
CallShapes ==
    {[curve |-> "convex", direction |-> "decreasing", online |-> FALSE],
     [curve |-> "concave", direction |-> "increasing", online |-> TRUE]}

\* The arguments of the locate_elbow call of lines 970-976, None when
\* select_pcs makes no such call (an explicit n_pcs, lines 978-979).
SelectPcsLocatorCall(arg_n_pcs, S2, arg_min, direction, online) ==
    IF arg_n_pcs = None
    THEN Some([S2 |-> S2,
               min10 |-> IF arg_min = None THEN DefaultMinElbow(NumComponents)
                         ELSE arg_min,
               curve |-> "convex", direction |-> direction, online |-> online])
    ELSE None

SelectPcs ==
    /\ frame.pc = "idle" /\ PCs # <<>>
    /\ \E arg_n_pcs \in {None} \cup {Some(k) : k \in 1..NumComponents},
          S2 \in SelectSVals, arg_min \in ArgMinElbows, shape \in CallShapes :
          /\ n_pcs' = Some(SelectPcsResult(arg_n_pcs, S2, arg_min,
                                           shape.direction, shape.online))
          /\ call' = [op |-> "select_pcs", n_pcs |-> arg_n_pcs,
                       passed |-> [S2 |-> S2, min_elbow |-> arg_min,
                                   curve |-> shape.curve,
                                   direction |-> shape.direction,
                                   online |-> shape.online],
                       used |-> SelectPcsLocatorCall(arg_n_pcs, S2, arg_min,
                                                     shape.direction, shape.online)]
    /\ err' = FALSE
    /\ UNCHANGED <<PCs, variance_ratio, features, top_pcs, frame, elbowVars, filterVars>>

\* (variant: an absent count is noticed before the mapping is replaced)
SpfStartKeeps ==
    /\ frame.pc = "idle" /\ PCs # <<>> /\ n_pcs # None
    /\ \E S2 \in SelectSVals, arg_min \in ArgMinElbows, shape \in CallShapes :
          /\ frame' = [pc |-> "loop",
                       n_pcs |-> TheValue(n_pcs),
                       min10 |-> IF arg_min = None
                                 THEN DefaultMinElbow(NumFeatures) ELSE arg_min,
                       S2 |-> S2, i |-> 0, ids_features |-> <<>>]
          /\ call' = [op |-> "select_pcs_features",
                       passed |-> [S2 |-> S2, min_elbow |-> arg_min,
                                   curve |-> shape.curve,
                                   direction |-> shape.direction,
                                   online |-> shape.online],
                       used |-> None]
    /\ features' = IF TheValue(n_pcs) = None THEN features ELSE Some(<<>>)
    /\ err' = FALSE
    /\ UNCHANGED <<PCs, variance_ratio, n_pcs, top_pcs, elbowVars, filterVars>>

\* select_pcs_features, lines 991-996: read n_pcs, default min_elbow,
\* replace the 'features' mapping by an empty dict, start the id list.
SpfStart ==
    /\ frame.pc = "idle" /\ PCs # <<>> /\ n_pcs # None
    /\ \E S2 \in SelectSVals, arg_min \in ArgMinElbows, shape \in CallShapes :
          /\ frame' = [pc |-> "loop",
                       n_pcs |-> TheValue(n_pcs),
                       min10 |-> IF arg_min = None
                                 THEN DefaultMinElbow(NumFeatures) ELSE arg_min,
                       S2 |-> S2, i |-> 0, ids_features |-> <<>>]
          /\ call' = [op |-> "select_pcs_features",
                       passed |-> [S2 |-> S2, min_elbow |-> arg_min,
                                   curve |-> shape.curve,
                                   direction |-> shape.direction,
                                   online |-> shape.online],
                       used |-> None]
    /\ features' = Some(<<>>)
    /\ err' = FALSE
    /\ UNCHANGED <<PCs, variance_ratio, n_pcs, top_pcs, elbowVars, filterVars>>

\* line 997 with n_pcs = None: range(None) raises TypeError and the call ends.
SpfFail ==
    /\ frame.pc = "loop" /\ frame.n_pcs = None
    /\ frame' = NoFrame
    /\ err' = TRUE
    /\ UNCHANGED <<PCs, variance_ratio, n_pcs, features, top_pcs, call, elbowVars, filterVars>>

\* The elbow of component i's sorted-magnitude curve (lines 998-1002): the
\* locator gets S and min_elbow only, so its defaults apply to the rest.
ComponentElbow(col, S2, min10) ==
    locate_elbow(SortedMagnitudes(col), S2, min10, "convex", "decreasing", FALSE)

\* The arguments of that locate_elbow call.
SpfLocatorCall(S2, min10) ==
    [S2 |-> S2, min10 |-> min10, curve |-> "convex", direction |-> "decreasing",
     online |-> FALSE]

\* lines 1003-1004
ComponentFeatures(col, ranking, S2, min10) ==
    TopFeatures(ranking, ComponentElbow(col, S2, min10))

\* (variant: every iteration marks its features in the column at once)
SpfIterWrites ==
    /\ frame.pc = "loop" /\ frame.n_pcs # None
    /\ frame.i < TheValue(frame.n_pcs)
    /\ \E ranking \in Rankings(PCs[frame.i + 1]) :
          LET ids_features_i ==
                ComponentFeatures(PCs[frame.i + 1], ranking, frame.S2, frame.min10)
              column == IF top_pcs = None
                        THEN [f \in 0..(NumFeatures - 1) |-> FALSE]
                        ELSE TheValue(top_pcs)
          IN  /\ features' = Some(Append(TheValue(features), ids_features_i))
              /\ frame' = [frame EXCEPT
                              !.i = frame.i + 1,
                              !.ids_features = frame.ids_features \o ids_features_i]
              /\ top_pcs' = Some([f \in DOMAIN column |->
                                    column[f] \/ f \in Unique(ids_features_i)])
    /\ call' = [call EXCEPT !.used = Some(SpfLocatorCall(frame.S2, frame.min10))]
    /\ UNCHANGED <<PCs, variance_ratio, n_pcs, err, elbowVars, filterVars>>

\* One iteration of the loop, lines 997-1006.
SpfIter ==
    /\ frame.pc = "loop" /\ frame.n_pcs # None
    /\ frame.i < TheValue(frame.n_pcs)
    /\ \E ranking \in Rankings(PCs[frame.i + 1]) :
          LET ids_features_i ==
                ComponentFeatures(PCs[frame.i + 1], ranking, frame.S2, frame.min10)
          IN  /\ features' = Some(Append(TheValue(features), ids_features_i))
              /\ frame' = [frame EXCEPT
                              !.i = frame.i + 1,
                              !.ids_features = frame.ids_features \o ids_features_i]
    /\ call' = [call EXCEPT !.used = Some(SpfLocatorCall(frame.S2, frame.min10))]
    /\ UNCHANGED <<PCs, variance_ratio, n_pcs, top_pcs, err, elbowVars, filterVars>>

\* (variant: an existing column is not cleared)
SpfWriteFalseKeep ==
    /\ frame.pc = "loop" /\ frame.n_pcs # None
    /\ frame.i >= TheValue(frame.n_pcs)
    /\ top_pcs' = IF top_pcs = None
                  THEN Some([f \in 0..(NumFeatures - 1) |-> FALSE])
                  ELSE top_pcs
    /\ frame' = [frame EXCEPT !.pc = "write"]
    /\ UNCHANGED <<PCs, variance_ratio, n_pcs, features, err, call, elbowVars, filterVars>>

\* line 1007: adata.var['top_pcs'] = False, once the loop is over
SpfWriteFalse ==
    /\ frame.pc = "loop" /\ frame.n_pcs # None
    /\ frame.i >= TheValue(frame.n_pcs)
    /\ top_pcs' = Some([f \in 0..(NumFeatures - 1) |-> FALSE])
    /\ frame' = [frame EXCEPT !.pc = "write"]
    /\ UNCHANGED <<PCs, variance_ratio, n_pcs, features, err, call, elbowVars, filterVars>>

\* line 1008: the rows of np.unique(ids_features) are set to True
MarkSelected(column, ids) ==
    [f \in DOMAIN column |-> IF f \in Unique(ids) THEN TRUE ELSE column[f]]

SpfWriteTrue ==
    /\ frame.pc = "write"
    /\ top_pcs' = Some(MarkSelected(TheValue(top_pcs), frame.ids_features))
    /\ frame' = NoFrame
    /\ UNCHANGED <<PCs, variance_ratio, n_pcs, features, err, call, elbowVars, filterVars>>

SelectInit == SelectIdle /\ ElbowIdle /\ FilterIdle

SelectNext ==
    \/ Pca
    \/ SelectPcs
    \/ SpfStart
    \/ SpfFail
    \/ SpfIter
    \/ SpfWriteFalse
    \/ SpfWriteTrue

SpecSelect == SelectInit /\ [][SelectNext]_vars

(* ----------------------- claims on the selection ---------------------- *)

\* The features named by at least one recorded per-component list.
RecordedUnion(mapping) ==
    UNION {Unique(mapping[c]) : c \in DOMAIN mapping}

TrueCount(column) == Cardinality({f \in DOMAIN column : column[f]})

\* The step on which select_pcs_features returns.
SpfCompletes == frame.pc = "write" /\ frame'.pc = "idle"

\* C8: when select_pcs_features completes, top_pcs is true for a feature
\* exactly when its index is in the recorded list of at least one retained
\* component, so the true entries number the size of the union of the lists,
\* whatever the column held before the call.
C8_TopPcsIsUnion ==
    [][SpfCompletes =>
          /\ DOMAIN TheValue(top_pcs') = 0..(NumFeatures - 1)
          /\ \A f \in 0..(NumFeatures - 1) :
                TheValue(top_pcs')[f] <=> f \in RecordedUnion(TheValue(features'))
          /\ TrueCount(TheValue(top_pcs'))
                = Cardinality(RecordedUnion(TheValue(features')))]_vars

\* C8 witness: a completed call left two lists that differ and share a
\* feature, and as many true flags as their union has members.
C8_Witness ==
    /\ frame.pc = "idle" /\ features # None /\ top_pcs # None
    /\ Len(TheValue(features)) = 2
    /\ LET l1 == TheValue(features)[1]
           l2 == TheValue(features)[2]
       IN  /\ Unique(l1) \cap Unique(l2) # {}
           /\ Unique(l1) # Unique(l2)
           /\ TrueCount(TheValue(top_pcs)) = Cardinality(Unique(l1) \cup Unique(l2))
           /\ TrueCount(TheValue(top_pcs)) = Len(l1) + Len(l2) - 1

\* The list ids holds the k features of largest absolute loading in column
\* col, in descending order of magnitude, each once.
IsTopK(ids, col, k) ==
    /\ Len(ids) = k
    /\ \A a \in 1..k : ids[a] \in 0..(Len(col) - 1)
    /\ \A a, b \in 1..k : a # b => ids[a] # ids[b]
    /\ \A a, b \in 1..k : a < b => Abs(col[ids[a] + 1]) >= Abs(col[ids[b] + 1])
    /\ \A a \in 1..k : \A f \in 0..(Len(col) - 1) :
          f \notin Unique(ids) => Abs(col[f + 1]) <= Abs(col[ids[a] + 1])

\* The step that processes component frame.i.
SpfIterates == frame.pc = "loop" /\ frame'.pc = "loop" /\ frame'.i = frame.i + 1

\* C9: the list recorded under 'pc_i' holds exactly k distinct entries, the
\* first k feature indices by descending absolute loading on component i,
\* where k is the elbow index the locator returned for that component's
\* sorted-magnitude curve.
C9_TopKRecorded ==
    [][SpfIterates =>
          LET col   == PCs[frame.i + 1]
              elbow == locate_elbow(SortedMagnitudes(col), frame.S2, frame.min10,
                                    "convex", "decreasing", FALSE)
          IN  /\ Len(TheValue(features')) = frame.i + 1
              /\ elbow # None =>
                    IsTopK(TheValue(features')[frame.i + 1], col, TheValue(elbow))]_vars

\* C9 witness: a component has been processed whose elbow is an index below
\* the number of features, and a shorter list was recorded for it.
C9_Witness ==
    /\ frame.pc = "loop" /\ frame.i >= 1
    /\ ComponentElbow(PCs[frame.i], frame.S2, frame.min10) # None
    /\ Len(TheValue(features)[frame.i]) < NumFeatures
    /\ Len(TheValue(features)[frame.i]) >= 1

\* C16: after select_pcs with an explicit n_pcs the locator was not invoked
\* and the recorded count is the supplied n_pcs; after select_pcs without
\* n_pcs the recorded count is the locator's result on the variance-ratio
\* curve.
C16_ExplicitCountBypasses ==
    call.op = "select_pcs" =>
        IF call.n_pcs # None
        THEN call.used = None /\ n_pcs = Some(call.n_pcs)
        ELSE /\ call.used # None
             /\ LET u == TheValue(call.used)
                IN  n_pcs = Some(locate_elbow(variance_ratio, u.S2, u.min10,
                                              u.curve, u.direction, u.online))

\* C16 witness: an explicit count was recorded where the locator, run with
\* the same arguments, would have returned something else.
C16_Witness ==
    /\ call.op = "select_pcs" /\ call.n_pcs # None
    /\ n_pcs = Some(call.n_pcs)
    /\ SelectPcsResult(None, call.passed.S2, call.passed.min_elbow,
                       call.passed.direction, call.passed.online) # call.n_pcs

\* C17: during select_pcs_features the top_pcs column is written only once
\* the loop over all retained components is over: the prologue and the
\* iterations leave the column as it was, and it changes only in the two
\* assignments that follow the last iteration.
C17_TopPcsWrittenAfterLoop ==
    [][top_pcs' # top_pcs =>
          \/ /\ frame.pc = "loop" /\ frame.n_pcs # None
             /\ frame.i = TheValue(frame.n_pcs)
             /\ Len(TheValue(features)) = TheValue(frame.n_pcs)
             /\ frame'.pc = "write"
          \/ /\ frame.pc = "write" /\ frame'.pc = "idle"]_vars

\* C17 witness: an iteration has recorded features for a component, another
\* component is still to come, and there is no top_pcs column yet.
C17_Witness ==
    /\ frame.pc = "loop" /\ frame.n_pcs # None
    /\ frame.i >= 1 /\ frame.i < TheValue(frame.n_pcs)
    /\ frame.ids_features # <<>>
    /\ top_pcs = None

\* C19: every selection-configuration field a caller passes to select_pcs or
\* select_pcs_features (S, curve, direction, online, min_elbow) is the value
\* the elbow locator is invoked with at that call site.
C19_ConfigurationPassedOn ==
    (call.op \in {"select_pcs", "select_pcs_features"} /\ call.used # None) =>
        LET u == TheValue(call.used)
        IN  /\ u.S2 = call.passed.S2
            /\ call.passed.min_elbow # None => u.min10 = call.passed.min_elbow
            /\ u.curve = call.passed.curve
            /\ u.direction = call.passed.direction
            /\ u.online = call.passed.online

\* C20: pca invokes the decomposition with the caller's n_components,
\* algorithm, n_iter, random_state and tol.
C20_PcaPassesArguments ==
    call.op = "pca" => call.used = Some(call.passed)

\* The components processed so far by the select_pcs_features call in
\* progress, or all retained ones once it has returned.
Processed ==
    IF frame.pc = "loop" THEN frame.i ELSE TheValue(TheValue(n_pcs))

\* The processed components for whose loading curve the locator, called as
\* the loop called it, finds no elbow.
NoElbowComponents ==
    LET u == TheValue(call.used)
    IN  {i \in 1..Processed : ComponentElbow(PCs[i], u.S2, u.min10) = None}

AllTrue(column) == \A f \in DOMAIN column : column[f]

\* C21: in select_pcs_features, when the locator finds no elbow for a
\* component's loading curve the call does not fail: the absent result ends
\* the slice nowhere, so the list recorded for that component holds every
\* feature index, and when the call has returned top_pcs is true for all
\* features.
C21_NoElbowTakesAll ==
    (call.op = "select_pcs_features" /\ TheValue(n_pcs) # None) =>
        /\ ~err
        /\ call.used # None =>
              /\ \A i \in NoElbowComponents :
                    /\ Len(TheValue(features)[i]) = NumFeatures
                    /\ Unique(TheValue(features)[i]) = 0..(NumFeatures - 1)
              /\ (frame.pc = "idle" /\ NoElbowComponents # {}) =>
                    /\ top_pcs # None
                    /\ DOMAIN TheValue(top_pcs) = 0..(NumFeatures - 1)
                    /\ AllTrue(TheValue(top_pcs))

\* C21 witness: a call over two features has returned; one component had no
\* elbow and another had one that cut its list short, and the column is
\* true throughout.
C21_Witness ==
    /\ call.op = "select_pcs_features" /\ frame.pc = "idle" /\ ~err
    /\ TheValue(n_pcs) # None /\ call.used # None
    /\ NumFeatures = 2
    /\ NoElbowComponents # {}
    /\ \E j \in 1..Processed :
          j \notin NoElbowComponents /\ Len(TheValue(features)[j]) < NumFeatures
    /\ AllTrue(TheValue(top_pcs))

\* The locator's answer to the latest select_pcs call that consulted it.
SelectPcsLocated ==
    LET u == TheValue(call.used)
    IN  locate_elbow(variance_ratio, u.S2, u.min10, u.curve, u.direction, u.online)

\* C22: in the sequence pca, select_pcs, select_pcs_features, a select_pcs
\* that finds no elbow records an absent component count without error; the
\* select_pcs_features that follows fails before it processes any component,
\* and at that failure the component-to-features mapping has already been
\* replaced by an empty one while the top_pcs column is as it was before the
\* call.
C22_AbsentCountFailsLate ==
    /\ []((call.op = "select_pcs" /\ call.used # None /\ SelectPcsLocated = None)
             => (n_pcs = Some(None) /\ ~err))
    /\ [][/\ (frame.pc = "idle" /\ frame'.pc = "loop" /\ TheValue(n_pcs) = None)
                => /\ features' = Some(<<>>)
                   /\ top_pcs' = top_pcs
                   /\ frame'.i = 0 /\ call'.used = None /\ ~err'
          /\ (frame.pc = "loop" /\ frame.n_pcs = None)
                => /\ err' /\ frame'.pc = "idle"
                   /\ features = Some(<<>>) /\ features' = Some(<<>>)
                   /\ top_pcs' = top_pcs
                   /\ call'.op = "select_pcs_features" /\ call'.used = None]_vars

\* C22 witness: select_pcs_features has failed on an absent count; the
\* mapping is empty and the column an earlier call wrote, with a feature
\* selected, is still there.
C22_Witness ==
    /\ err /\ frame.pc = "idle" /\ call.op = "select_pcs_features"
    /\ n_pcs = Some(None)
    /\ features = Some(<<>>)
    /\ top_pcs # None /\ \E f \in DOMAIN TheValue(top_pcs) : TheValue(top_pcs)[f]

(* ------------------ cal_qc, filter_samples, filter_features ----------- *)

\* most rows and most columns of the matrix
MaxRows == 2

MaxCols == 2

Counts == {0, 2}

\* expr_cutoff, at its default (lines 61, 293, 736)
ExprCutoffs == {1}

\* A percentage is kept as <<numerator, denominator>>.  A zero denominator is
\* the NaN numpy yields for 0/0, which compares false with everything.
PctGE(p, t) == p[2] # 0 /\ p[1] * t[2] >= t[1] * p[2]

PctLE(p, t) == p[2] # 0 /\ p[1] * t[2] <= t[1] * p[2]

\* A threshold that is not a number (a string, say): comparing the metric
\* with it raises TypeError.
NotANumber == 0 - 1

\* The threshold arguments of a filter call: none, one or two of the six
\* supplied.
Thresholds ==
    {th \in [min_n : {None, Some(1)}, max_n : {None, Some(1)},
             min_pct : {None, Some(<<1, 2>>)}, max_pct : {None, Some(<<1, 2>>)},
             min_n_counts : {None, Some(2)},
             max_n_counts : {None, Some(2), Some(NotANumber)}] :
        Cardinality({k \in DOMAIN th : th[k] # None}) <= 2}

\* The matrix of the specification's P9.
P9Matrix == <<<<0, 2, 0>>, <<1, 0, 3>>, <<4, 0, 0>>>>

\* The annotated matrix as one value.
AData == [X |-> X, n_obs |-> n_obs, n_vars |-> n_vars, obs |-> obs, var |-> var]

\* adata.X.sum(axis=1) and (adata.X >= expr_cutoff).sum(axis=1), per row
RowCounts(ad) ==
    [r \in 1..ad.n_obs |-> SumTo(ad.X[r], ad.n_vars)]

RowExpressed(ad, cutoff) ==
    [r \in 1..ad.n_obs |->
        SumTo([c \in 1..ad.n_vars |-> IF ad.X[r][c] >= cutoff THEN 1 ELSE 0],
              ad.n_vars)]

\* adata.X.sum(axis=0) and (adata.X >= expr_cutoff).sum(axis=0), per column
ColCounts(ad) ==
    [c \in 1..ad.n_vars |->
        SumTo([r \in 1..ad.n_obs |-> ad.X[r][c]], ad.n_obs)]

\* (variant: "expressed" means greater than the cutoff, as the docstring words it)
ColExpressedStrict(ad, cutoff) ==
    [c \in 1..ad.n_vars |->
        SumTo([r \in 1..ad.n_obs |-> IF ad.X[r][c] > cutoff THEN 1 ELSE 0],
              ad.n_obs)]

ColExpressed(ad, cutoff) ==
    [c \in 1..ad.n_vars |->
        SumTo([r \in 1..ad.n_obs |-> IF ad.X[r][c] >= cutoff THEN 1 ELSE 0],
              ad.n_obs)]

\* values / total, elementwise
Pct(values, total) == [k \in DOMAIN values |-> <<values[k], total>>]

\* cal_qc, lines 96-109: every QC column is computed from the matrix.
cal_qc(ad, cutoff) ==
    [ad EXCEPT
        !.var = [n_counts |-> Some(ColCounts(ad)),
                 n_samples |-> Some(ColExpressed(ad, cutoff)),
                 pct_samples |-> Some(Pct(ColExpressed(ad, cutoff), ad.n_obs))],
        !.obs = [n_counts |-> Some(RowCounts(ad)),
                 n_features |-> Some(RowExpressed(ad, cutoff)),
                 pct_features |-> Some(Pct(RowExpressed(ad, cutoff), ad.n_vars))]]

\* The positions a boolean mask keeps, in order.
RECURSIVE KeptUpTo(_, _)
KeptUpTo(mask, k) ==
    IF k = 0 THEN <<>>
    ELSE IF mask[k] THEN Append(KeptUpTo(mask, k - 1), k)
    ELSE KeptUpTo(mask, k - 1)

Kept(mask) == KeptUpTo(mask, Len(mask))

\* (variant: the column is cut to the number of kept positions)
SelectColumnHead(column, kept) ==
    IF column = None THEN None
    ELSE Some([k \in 1..Len(kept) |-> TheValue(column)[k]])

\* A metadata column restricted to the kept positions.
SelectColumn(column, kept) ==
    IF column = None THEN None
    ELSE Some([k \in 1..Len(kept) |-> TheValue(column)[kept[k]]])

\* adata._inplace_subset_obs(mask), line 371: rows of X and of adata.obs
inplace_subset_obs(ad, mask) ==
    LET kept == Kept(mask)
    IN  [ad EXCEPT
            !.X = [r \in 1..Len(kept) |-> ad.X[kept[r]]],
            !.n_obs = Len(kept),
            !.obs = [n_counts |-> SelectColumn(ad.obs.n_counts, kept),
                     n_features |-> SelectColumn(ad.obs.n_features, kept),
                     pct_features |-> SelectColumn(ad.obs.pct_features, kept)]]

\* adata._inplace_subset_var(mask), line 808: columns of X and rows of adata.var
inplace_subset_var(ad, mask) ==
    LET kept == Kept(mask)
    IN  [ad EXCEPT
            !.X = [r \in 1..ad.n_obs |-> [c \in 1..Len(kept) |-> ad.X[r][kept[c]]]],
            !.n_vars = Len(kept),
            !.var = [n_counts |-> SelectColumn(ad.var.n_counts, kept),
                     n_samples |-> SelectColumn(ad.var.n_samples, kept),
                     pct_samples |-> SelectColumn(ad.var.pct_samples, kept)]]

AllUnset(th) == th = NoThresholds

\* The comparison of lines 368-370 (806-807) raises on a malformed
\* max_n_counts, after the masks of the thresholds before it were computed.
Raises(th) == th.max_n_counts = Some(NotANumber)

\* The mask of lines 352-370 and 789-807: every supplied threshold must hold.
PassesThresholds(n_counts, n, pct, th) ==
    /\ th.min_n # None => n >= TheValue(th.min_n)
    /\ th.max_n # None => n <= TheValue(th.max_n)
    /\ th.min_pct # None => PctGE(pct, TheValue(th.min_pct))
    /\ th.max_pct # None => PctLE(pct, TheValue(th.max_pct))
    /\ th.min_n_counts # None => n_counts >= TheValue(th.min_n_counts)
    /\ th.max_n_counts # None => n_counts <= TheValue(th.max_n_counts)

\* filter_samples, lines 327-341: a QC column already in adata.obs is used as
\* it is; a missing one is computed from the matrix and stored.
SampleMetrics(ad, cutoff) ==
    LET n_counts == IF ad.obs.n_counts # None THEN TheValue(ad.obs.n_counts)
                    ELSE RowCounts(ad)
        n_features == IF ad.obs.n_features # None THEN TheValue(ad.obs.n_features)
                      ELSE RowExpressed(ad, cutoff)
        pct_features == IF ad.obs.pct_features # None
                        THEN TheValue(ad.obs.pct_features)
                        ELSE Pct(n_features, ad.n_vars)
    IN  [n_counts |-> Some(n_counts), n_features |-> Some(n_features),
         pct_features |-> Some(pct_features)]

\* (variant: the rows are subset after each threshold, so a comparison that
\* raises finds the rows failing the thresholds before it already gone)
filter_samples_eager(ad, th, cutoff) ==
    LET m    == SampleMetrics(ad, cutoff)
        ad1  == [ad EXCEPT !.obs = m]
        sofar == IF Raises(th) THEN [th EXCEPT !.max_n_counts = None] ELSE th
        cell_subset ==
            [r \in 1..ad.n_obs |->
                PassesThresholds(TheValue(m.n_counts)[r], TheValue(m.n_features)[r],
                                 TheValue(m.pct_features)[r], sofar)]
    IN  IF AllUnset(th) THEN ad1 ELSE inplace_subset_obs(ad1, cell_subset)

\* (variant: a None min_n_features falls back to the default 1, and the
\* all-None test is gone with it)
filter_samples_defaulted(ad, th, cutoff) ==
    LET m    == SampleMetrics(ad, cutoff)
        ad1  == [ad EXCEPT !.obs = m]
        th1  == [th EXCEPT !.min_n = IF th.min_n = None THEN Some(1) ELSE th.min_n]
        cell_subset ==
            [r \in 1..ad.n_obs |->
                PassesThresholds(TheValue(m.n_counts)[r], TheValue(m.n_features)[r],
                                 TheValue(m.pct_features)[r], th1)]
    IN  IF Raises(th) THEN ad1 ELSE inplace_subset_obs(ad1, cell_subset)

\* filter_samples, lines 327-374
filter_samples(ad, th, cutoff) ==
    LET m    == SampleMetrics(ad, cutoff)
        ad1  == [ad EXCEPT !.obs = m]
        cell_subset ==
            [r \in 1..ad.n_obs |->
                PassesThresholds(TheValue(m.n_counts)[r], TheValue(m.n_features)[r],
                                 TheValue(m.pct_features)[r], th)]
    IN  IF AllUnset(th) \/ Raises(th) THEN ad1
        ELSE inplace_subset_obs(ad1, cell_subset)

\* (variant: the metrics are computed from the matrix at every call)
FeatureMetricsFresh(ad, cutoff) ==
    [n_counts |-> Some(ColCounts(ad)),
     n_samples |-> Some(ColExpressed(ad, cutoff)),
     pct_samples |-> Some(Pct(ColExpressed(ad, cutoff), ad.n_obs))]

\* filter_features, lines 767-781
FeatureMetrics(ad, cutoff) ==
    LET n_counts == IF ad.var.n_counts # None THEN TheValue(ad.var.n_counts)
                    ELSE ColCounts(ad)
        n_samples == IF ad.var.n_samples # None THEN TheValue(ad.var.n_samples)
                     ELSE ColExpressed(ad, cutoff)
        pct_samples == IF ad.var.pct_samples # None
                       THEN TheValue(ad.var.pct_samples)
                       ELSE Pct(n_samples, ad.n_obs)
    IN  [n_counts |-> Some(n_counts), n_samples |-> Some(n_samples),
         pct_samples |-> Some(pct_samples)]

\* filter_features, lines 767-811
filter_features(ad, th, cutoff) ==
    LET m    == FeatureMetrics(ad, cutoff)
        ad1  == [ad EXCEPT !.var = m]
        feature_subset ==
            [c \in 1..ad.n_vars |->
                PassesThresholds(TheValue(m.n_counts)[c], TheValue(m.n_samples)[c],
                                 TheValue(m.pct_samples)[c], th)]
    IN  IF AllUnset(th) \/ Raises(th) THEN ad1
        ELSE inplace_subset_var(ad1, feature_subset)

\* Two percentages are the same value (NaN only with NaN).
SamePct(p, q) ==
    IF p[2] = 0 \/ q[2] = 0 THEN p[2] = q[2]
    ELSE p[1] * q[2] = q[1] * p[2]

\* Two metric columns hold the same values, position by position.
SameColumn(a, b, isPct) ==
    /\ Len(a) = Len(b)
    /\ \A k \in 1..Len(a) : IF isPct THEN SamePct(a[k], b[k]) ELSE a[k] = b[k]

\* The metrics m a filter compared are the ones recomputed from the matrix.
UsedFresh(m, fresh) ==
    \A k \in DOMAIN m :
        SameColumn(TheValue(m[k]), TheValue(fresh[k]),
                   k \in {"pct_features", "pct_samples"})

\* The metrics m a filter compared are the stored columns where a column was
\* stored, and the ones recomputed from the matrix where none was.
UsedCached(m, stored, fresh) ==
    \A k \in DOMAIN m : m[k] = IF stored[k] # None THEN stored[k] ELSE fresh[k]

\* A sample or feature with these metrics misses a supplied threshold.
MissesThreshold(n_counts, n, pct, th) ==
    \/ th.min_n # None /\ n < TheValue(th.min_n)
    \/ th.max_n # None /\ n > TheValue(th.max_n)
    \/ th.min_pct # None /\ ~PctGE(pct, TheValue(th.min_pct))
    \/ th.max_pct # None /\ ~PctLE(pct, TheValue(th.max_pct))
    \/ th.min_n_counts # None /\ n_counts < TheValue(th.min_n_counts)
    \/ th.max_n_counts # None /\ n_counts > TheValue(th.max_n_counts)

\* The thresholds whose comparison went through.
Numeric(th) == IF Raises(th) THEN [th EXCEPT !.max_n_counts = None] ELSE th

\* The positions 1..n whose metrics (columns a: n_counts, b: the expressed
\* count, c: its percentage) miss no supplied threshold, in order.
Meeting(n, a, b, c, th) ==
    SelectSeq([k \in 1..n |-> k],
              LAMBDA k : ~MissesThreshold(a[k], b[k], c[k], th))

\* The call on `before` left exactly the samples meeting every supplied
\* threshold of th, judged on the metrics m it compared.
KeptExactSamples(before, after, m, th) ==
    LET keep == Meeting(before.n_obs, TheValue(m.n_counts),
                        TheValue(m.n_features), TheValue(m.pct_features), th)
    IN  /\ after.n_obs = Len(keep) /\ after.n_vars = before.n_vars
        /\ after.X = [r \in 1..Len(keep) |-> before.X[keep[r]]]
        /\ after.obs.n_counts =
              Some([r \in 1..Len(keep) |-> TheValue(m.n_counts)[keep[r]]])

KeptExactFeatures(before, after, m, th) ==
    LET keep == Meeting(before.n_vars, TheValue(m.n_counts),
                        TheValue(m.n_samples), TheValue(m.pct_samples), th)
    IN  /\ after.n_vars = Len(keep) /\ after.n_obs = before.n_obs
        /\ after.X = [r \in 1..before.n_obs |->
                         [c \in 1..Len(keep) |-> before.X[r][keep[c]]]]
        /\ after.var.n_counts =
              Some([c \in 1..Len(keep) |-> TheValue(m.n_counts)[keep[c]]])

\* The rows and columns that went from before to after.
Removed(before, after) ==
    (before.n_obs - after.n_obs) + (before.n_vars - after.n_vars)

Install(ad) ==
    /\ X' = ad.X /\ n_obs' = ad.n_obs /\ n_vars' = ad.n_vars
    /\ obs' = ad.obs /\ var' = ad.var

CalQc ==
    /\ \E cutoff \in ExprCutoffs : Install(cal_qc(AData, cutoff))
    /\ last' = [op |-> "cal_qc", removed |-> 0, again |-> 0]
    /\ audit' = NoAudit
    /\ UNCHANGED <<elbowVars, selectVars, prepVars>>

FilterSamples ==
    /\ \E th \in Thresholds, cutoff \in ExprCutoffs :
          LET ad  == filter_samples(AData, th, cutoff)
              ad2 == filter_samples(ad, th, cutoff)
          IN  /\ Install(ad)
              /\ last' = [op |-> "filter_samples",
                          removed |-> Removed(AData, ad),
                          again |-> Removed(ad, ad2)]
              /\ audit' =
                    LET m == SampleMetrics(AData, cutoff)
                        fresh == cal_qc(AData, cutoff).obs
                        raised == ~AllUnset(th) /\ Raises(th)
                    IN  [fresh |-> UsedFresh(m, fresh),
                         cached |-> UsedCached(m, obs, fresh),
                         exact |-> raised \/ KeptExactSamples(AData, ad, m, th),
                         unset |-> AllUnset(th),
                         raised |-> raised,
                         masked |-> IF ~raised THEN 0
                                    ELSE n_obs - Len(Meeting(n_obs,
                                       TheValue(m.n_counts), TheValue(m.n_features),
                                       TheValue(m.pct_features), Numeric(th)))]
    /\ UNCHANGED <<elbowVars, selectVars, prepVars>>

FilterFeatures ==
    /\ \E th \in Thresholds, cutoff \in ExprCutoffs :
          LET ad  == filter_features(AData, th, cutoff)
              ad2 == filter_features(ad, th, cutoff)
          IN  /\ Install(ad)
              /\ last' = [op |-> "filter_features",
                          removed |-> Removed(AData, ad),
                          again |-> Removed(ad, ad2)]
              /\ audit' =
                    LET m == FeatureMetrics(AData, cutoff)
                        fresh == cal_qc(AData, cutoff).var
                        raised == ~AllUnset(th) /\ Raises(th)
                    IN  [fresh |-> UsedFresh(m, fresh),
                         cached |-> UsedCached(m, var, fresh),
                         exact |-> raised \/ KeptExactFeatures(AData, ad, m, th),
                         unset |-> AllUnset(th),
                         raised |-> raised,
                         masked |-> IF ~raised THEN 0
                                    ELSE n_vars - Len(Meeting(n_vars,
                                       TheValue(m.n_counts), TheValue(m.n_samples),
                                       TheValue(m.pct_samples), Numeric(th)))]
    /\ UNCHANGED <<elbowVars, selectVars, prepVars>>

FilterInit ==
    /\ \/ /\ n_obs \in 1..MaxRows /\ n_vars \in 1..MaxCols
          /\ X \in [1..n_obs -> [1..n_vars -> Counts]]
       \/ /\ n_obs = 3 /\ n_vars = 3
          /\ X = P9Matrix
    /\ obs = NoObsColumns /\ var = NoVarColumns
    /\ last = [op |-> "none", removed |-> 0, again |-> 0]
    /\ audit = NoAudit
    /\ PrepIdle
    /\ SelectIdle /\ ElbowIdle

FilterNext == CalQc \/ FilterSamples \/ FilterFeatures

SpecFilter == FilterInit /\ [][FilterNext]_vars

(* ------------------------- claims on the filters ---------------------- *)

\* C10: once filter_samples (or filter_features) has been applied with a set
\* of thresholds, applying the same filter again with the same thresholds
\* removes no further row and no further column, for every matrix and every
\* combination of thresholds.
C10_FilterIdempotent ==
    last.op \in {"filter_samples", "filter_features"} => last.again = 0

\* C10 witness: filter_samples has removed some rows but not all, deciding on
\* per-row counts that were stored before columns were removed.
C10_Witness ==
    /\ last.op = "filter_samples" /\ last.removed > 0 /\ n_obs > 0
    /\ n_vars > 0
    /\ obs.n_counts # None /\ TheValue(obs.n_counts) # RowCounts(AData)

FilterCall == last.op \in {"filter_samples", "filter_features"}

\* C11 as stated: the metric values a filter compares against its thresholds
\* are the ones recomputed at that call from the matrix as it then is.
C11_MetricsRecomputed == FilterCall => audit.fresh

\* Every stored QC column has one value per row (obs) or per column (var).
ColumnsAligned ==
    /\ \A k \in DOMAIN obs : obs[k] # None => Len(TheValue(obs[k])) = n_obs
    /\ \A k \in DOMAIN var : var[k] # None => Len(TheValue(var[k])) = n_vars

\* C11 amended: a filter computes a metric from the matrix only when its
\* column is not yet stored; a stored column (left by cal_qc or by an earlier
\* filter call, and cut down with the rows or columns since) is compared as
\* it is.  The values compared are those of the current matrix when cal_qc
\* ran right before the filter.
C11_MetricsCachedOrComputed ==
    /\ [](ColumnsAligned /\ (FilterCall => audit.cached))
    /\ [][(last.op = "cal_qc" /\ last'.op \in {"filter_samples", "filter_features"})
             => audit'.fresh]_vars

\* C11 witness: filter_features has removed a column deciding on stored
\* per-feature counts that still include rows removed before.
C11_Witness ==
    /\ last.op = "filter_features" /\ last.removed > 0
    /\ ~audit.fresh /\ n_vars > 0
    /\ \E c \in 1..n_vars : TheValue(var.n_counts)[c] > ColCounts(AData)[c]

RECURSIVE SeqSum(_)
SeqSum(s) == IF s = <<>> THEN 0 ELSE Head(s) + SeqSum(Tail(s))

C13_ExactMaskOneSubset ==
    FilterCall =>
        /\ audit.exact
        /\ audit.raised => last.removed = 0

\* C13 witness: a filter_samples call raised on its last threshold after the
\* masks of the thresholds before it had excluded a row.
C13_Witness ==
    /\ last.op = "filter_samples" /\ audit.raised /\ audit.masked > 0

\* C14: a filter call with all six thresholds None raises no error and
\* leaves the matrix as it was: no row and no column goes.
C14_AllUnsetNoOp ==
    [][(last'.op \in {"filter_samples", "filter_features"} /\ audit'.unset)
          => /\ X' = X /\ n_obs' = n_obs /\ n_vars' = n_vars
             /\ ~audit'.raised]_vars

\* C14 witness: an all-None filter_samples call has left a sample in place
\* that expresses no feature (the default min_n_features = 1 would drop it).
C14_Witness ==
    /\ last.op = "filter_samples" /\ audit.unset /\ n_vars > 0
    /\ \E r \in 1..n_obs : RowExpressed(AData, 1)[r] = 0

(* ----------------------------- normalize ------------------------------ *)

\* The method names a caller may pass; only the first two are recognised
\* (line 52).
Methods == {"lib_size", "tf_idf", "log_norm"}

\* scale_factor: a value all row sums of the model's matrices divide.
ScaleFactors == {12}

\* The NaN that 0/0 yields, and a value out of cal_tf_idf, which
\* simba/preprocessing/_utils.py computes and this model leaves open.
NaN == 0 - 1

TfIdfValue == 0 - 2

\* sum of a row; NaN and cal_tf_idf values carry over
RowTotal(row) ==
    IF \E c \in DOMAIN row : row[c] = TfIdfValue THEN TfIdfValue
    ELSE IF \E c \in DOMAIN row : row[c] = NaN THEN NaN
    ELSE SumTo(row, Len(row))

\* line 57: (X.T / X.sum(axis=1)).T * scale_factor
LibSize(M, scale_factor) ==
    [r \in DOMAIN M |->
        LET total == RowTotal(M[r])
        IN  [c \in DOMAIN M[r] |->
                IF total = TfIdfValue \/ M[r][c] = TfIdfValue THEN TfIdfValue
                ELSE IF total = NaN \/ M[r][c] = NaN \/ total = 0 THEN NaN
                ELSE (M[r][c] * scale_factor) \div total]]

\* line 59: cal_tf_idf(X), a matrix of the same shape
TfIdf(M) == [r \in DOMAIN M |-> [c \in DOMAIN M[r] |-> TfIdfValue]]

\* (variant: the raw layer is saved before the method name is looked at)
normalize_save_first(ad, method, scale_factor, save_raw) ==
    LET saved == IF save_raw THEN Some(ad.X) ELSE ad.raw
    IN  IF method \notin {"lib_size", "tf_idf"}
        THEN [X |-> ad.X, raw |-> saved, raised |-> TRUE]
        ELSE [X |-> IF method = "lib_size" THEN LibSize(ad.X, scale_factor)
                    ELSE TfIdf(ad.X),
              raw |-> saved, raised |-> FALSE]

\* normalize, lines 52-59, on ad = [X, raw]: the method name is checked
\* first, then the raw layer saved, then X replaced.
normalize(ad, method, scale_factor, save_raw) ==
    IF method \notin {"lib_size", "tf_idf"}
    THEN [X |-> ad.X, raw |-> ad.raw, raised |-> TRUE]
    ELSE LET saved == IF save_raw THEN Some(ad.X) ELSE ad.raw
         IN  [X |-> IF method = "lib_size" THEN LibSize(ad.X, scale_factor)
                    ELSE TfIdf(ad.X),
              raw |-> saved, raised |-> FALSE]

Normalize ==
    /\ \E method \in Methods, scale_factor \in ScaleFactors, save_raw \in BOOLEAN :
          LET res == normalize([X |-> X, raw |-> raw], method, scale_factor, save_raw)
          IN  /\ X' = res.X
              /\ raw' = res.raw
              /\ outcome' = [op |-> "normalize", method |-> method,
                             save_raw |-> save_raw, raised |-> res.raised]
    /\ UNCHANGED <<n_obs, n_vars, obs, var, last, audit, var_names, rna,
                   elbowVars, selectVars>>

NormalizeInit == FilterInit

NormalizeNext == Normalize

SpecNormalize == NormalizeInit /\ [][NormalizeNext]_vars

\* C15: a normalize call with a method other than 'lib_size' and 'tf_idf'
\* ends in an error and leaves the matrix X and the 'raw' layer as they were
\* before the call, also when save_raw is true.
C15_RejectedMethodNoChange ==
    [][(outcome'.op = "normalize" /\ outcome'.method \notin {"lib_size", "tf_idf"})
          => /\ outcome'.raised
             /\ X' = X
             /\ raw' = raw]_vars

\* C15 witness: a call with an unknown method and save_raw = True has been
\* rejected, and the raw layer, saved by an earlier call, is not the matrix.
C15_Witness ==
    /\ outcome.op = "normalize" /\ outcome.method = "log_norm"
    /\ outcome.save_raw /\ outcome.raised
    /\ raw # None /\ raw # Some(X)

(* ----------------------------- cal_qc_rna ----------------------------- *)

\* Feature names (str, as adata.var_names holds them).
Names == {"MT-CO1", "mt-nd1", "ACTB"}

\* The names that start with 'MT-', whatever the case.
MTNames == {"MT-CO1", "mt-nd1"}

\* Line 161 compiles the bytes pattern b"^MT-"; its match on a str raises
\* TypeError ("cannot use a bytes pattern on a string-like object").
MatchRaises(name) == name \in Names

\* line 162: list(filter(r.match, adata.var_names)) raises at the first name
FilterNamesRaises(names) == \E c \in DOMAIN names : MatchRaises(names[c])

\* cal_qc_rna, lines 150-167.  The count columns are written first; the name
\* filter of line 162 then raises unless there is no name at all, in which
\* case pct_mt is set to 0 for every cell.
CalQcRna ==
    /\ \E cutoff \in ExprCutoffs :
          /\ var' = [var EXCEPT !.n_counts = Some(ColCounts(AData))]
          /\ obs' = [obs EXCEPT !.n_counts = Some(RowCounts(AData))]
          /\ rna' = [rna EXCEPT
                        !.n_cells = Some(ColExpressed(AData, cutoff)),
                        !.pct_cells = Some(Pct(ColExpressed(AData, cutoff), n_obs)),
                        !.n_genes = Some(RowExpressed(AData, cutoff)),
                        !.pct_genes = Some(Pct(RowExpressed(AData, cutoff), n_vars)),
                        !.pct_mt = IF FilterNamesRaises(var_names) THEN rna.pct_mt
                                   ELSE Some([r \in 1..n_obs |-> <<0, 1>>])]
    /\ outcome' = [op |-> "cal_qc_rna", raised |-> FilterNamesRaises(var_names)]
    /\ UNCHANGED <<X, n_obs, n_vars, last, audit, raw, var_names,
                   elbowVars, selectVars>>

RnaInit ==
    /\ n_obs \in 1..MaxRows /\ n_vars \in 0..MaxCols
    /\ X \in [1..n_obs -> [1..n_vars -> Counts]]
    /\ var_names \in [1..n_vars -> Names]
    /\ obs = NoObsColumns /\ var = NoVarColumns
    /\ last = [op |-> "none", removed |-> 0, again |-> 0]
    /\ audit = NoAudit
    /\ raw = None /\ rna = NoRnaColumns /\ outcome = NoOutcome
    /\ SelectIdle /\ ElbowIdle

RnaNext == CalQcRna

SpecRna == RnaInit /\ [][RnaNext]_vars

\* The counts of row r over the features named 'MT-...'.
MtCounts(r) ==
    SeqSum([c \in 1..n_vars |-> IF var_names[c] \in MTNames THEN X[r][c] ELSE 0])

\* C18: cal_qc_rna completes for every matrix with string feature names and
\* records for every cell pct_mt = (the cell's counts over the features whose
\* name starts with 'MT-', case-insensitively) / (the cell's total count), and
\* 0 for every cell when no name matches.
C18_PctMtRecorded ==
    outcome.op = "cal_qc_rna" =>
        /\ ~outcome.raised
        /\ rna.pct_mt # None
        /\ \A r \in 1..n_obs :
              SamePct(TheValue(rna.pct_mt)[r],
                      IF \E c \in 1..n_vars : var_names[c] \in MTNames
                      THEN <<MtCounts(r), SeqSum(X[r])>>
                      ELSE <<0, 1>>)

====
